---- MODULE Spec2Model ----
(***************************************************************************)
(* A model of xbuild's artifact fetcher (xbuild/src/download.rs) and of    *)
(* the toolchain locator (xbuild/src/flutter/mod.rs).                      *)
(*                                                                         *)
(* Paths are sequences of components and a component is a sequence of its  *)
(* dot-separated parts, so "cache/download/Windows.sdk.tar.zst" is         *)
(* << <<"cache">>, <<"download">>, <<"Windows","sdk","tar","zst">> >>.     *)
(* A URL is the sequence of its '/'-separated segments.                    *)
(*                                                                         *)
(* The file system is a function from the tracked paths to nodes           *)
(* [kind, data]: kind is "none", "file" or "dir"; data is the set of       *)
(* pieces present: the body chunks written to a file, or the archive       *)
(* entries (members) unpacked into a directory.                            *)
(***************************************************************************)
EXTENDS Integers, Sequences, FiniteSets, TLC

VARIABLES env, fs, last

vars == <<env, fs, last>>

(* ------------------------------------------------------------------ *)
(* Bounds and the remote side                                           *)
(* ------------------------------------------------------------------ *)

\* Number of chunks in which a response body is streamed to disk.
BodyChunks == 1

\* Number of members of a remote zip archive.
ZipMembers == 2

\* The entries of a remote .tar.zst archive: a regular file, a symbolic
\* link, a man page with a colon in its name, and a link with a colon.
TarEntries ==
    << [path |-> <<"l","i","b","/","a">>, type |-> "Regular"],
       [path |-> <<"l","i","b","/","A">>, type |-> "Symlink"],
       [path |-> <<"m","a","n","/","x",":","1">>, type |-> "Regular"],
       [path |-> <<"m","a","n","/","y",":","2">>, type |-> "Symlink"] >>

\* The points at which one fetch can fail: nowhere, the GET (transport
\* error or bad status), the body copy after k chunks, opening/decoding the
\* staged archive, creating a directory, reading/unpacking the k-th entry
\* or member of an archive (unzip1/unzip2: the two stages of a
\* .framework.zip).
DownloadFaults ==
    {[at |-> a, k |-> 0] : a \in {"none", "get"}}
    \cup {[at |-> "copy", k |-> k] : k \in 0 .. BodyChunks - 1}

TarFaults ==
    {[at |-> a, k |-> 0] : a \in {"open", "mkdir"}}
    \cup {[at |-> "entry", k |-> k] : k \in 1 .. Len(TarEntries)}

FrameworkFaults ==
    {[at |-> "mkdir", k |-> 0]}
    \cup {[at |-> "unzip1", k |-> 0]}
    \cup {[at |-> "unzip2", k |-> k] : k \in 1 .. ZipMembers}

ZipFaults == {[at |-> "unzip", k |-> k] : k \in 1 .. ZipMembers}

NoFault == [at |-> "none", k |-> 0]

(* ------------------------------------------------------------------ *)
(* Paths                                                                *)
(* ------------------------------------------------------------------ *)

Join(p, c) == Append(p, c)

Parent(p) == SubSeq(p, 1, Len(p) - 1)

IsPrefix(p, q) == Len(p) <= Len(q) /\ SubSeq(q, 1, Len(p)) = p

Ancestors(p) == {SubSeq(p, 1, n) : n \in 1 .. Len(p) - 1}

CacheDir == << <<"cache">> >>

DownloadDir == Join(CacheDir, <<"download">>)

\* url.rsplit_once('/').unwrap().1
UrlName(url) == url[Len(url)]

\* name.ends_with(".a.b"): the suffix parts, preceded by a dot.
EndsWith(name, suffix) ==
    /\ Len(name) > Len(suffix)
    /\ SubSeq(name, Len(name) - Len(suffix) + 1, Len(name)) = suffix

\* str::contains(':')
Contains(s, ch) == \E i \in 1 .. Len(s) : s[i] = ch

(* ------------------------------------------------------------------ *)
(* File system                                                          *)
(* ------------------------------------------------------------------ *)

None == [kind |-> "none", data |-> {}]

Dir(d) == [kind |-> "dir", data |-> d]

File(d) == [kind |-> "file", data |-> d]

\* Path::exists
Exists(f, p) == f[p].kind # "none"

\* Path::is_dir
IsDir(f, p) == f[p].kind = "dir"

\* std::fs::create_dir_all: every missing ancestor and the path itself
\* become directories; fails when a component is a file.
CanCreateDirAll(f, p) ==
    \A n \in 1 .. Len(p) : f[SubSeq(p, 1, n)].kind # "file"

CreateDirAll(f, p) ==
    [q \in DOMAIN f |->
        IF f[q].kind = "none" /\ IsPrefix(q, p) THEN Dir({}) ELSE f[q]]

\* std::fs::remove_dir_all: the directory and everything below it.
RemoveDirAll(f, p) ==
    [q \in DOMAIN f |-> IF IsPrefix(p, q) THEN None ELSE f[q]]

\* std::fs::remove_file: removes a file, fails (ignored) otherwise.
RemoveFile(f, p) ==
    IF f[p].kind = "file" THEN [f EXCEPT ![p] = None] ELSE f

(* ------------------------------------------------------------------ *)
(* WorkItem                                                             *)
(* ------------------------------------------------------------------ *)

\* WorkItem::new
New(output, url) ==
    [url |-> url, output |-> output,
     no_symlinks |-> FALSE, no_colons |-> FALSE]

\* WorkItem::no_symlinks
NoSymlinks(item) == [item EXCEPT !.no_symlinks = TRUE]

\* WorkItem::no_colons
NoColons(item) == [item EXCEPT !.no_colons = TRUE]

\* WorkItem::github_release
GithubRelease(output, org, name, version, artifact) ==
    New(output,
        << <<"https:">>, <<>>, <<"github", "com">>, org, name,
           <<"releases">>, <<"download">>, version, artifact >>)

(* ------------------------------------------------------------------ *)
(* DownloadManager::download                                            *)
(* ------------------------------------------------------------------ *)

\* What one step of a fetch returns: the file system it leaves, whether
\* it succeeded, the step that failed, the GETs issued, the archive
\* entries unpacked, and the path the response body was written to.
Res(f, ok, err, gets, unpacked, dest) ==
    [fs |-> f, ok |-> ok, err |-> err, gets |-> gets,
     unpacked |-> unpacked, dest |-> dest]

\* A copy error that is swallowed: the partial file is reported as done.
DownloadIgnoringCopyError(f, url, dest, fault) ==
    IF fault.at = "get" THEN Res(f, FALSE, "get", 1, {}, dest)
    ELSE IF ~IsDir(f, Parent(dest)) \/ IsDir(f, dest)
    THEN Res(f, FALSE, "create", 1, {}, dest)
    ELSE IF fault.at = "copy"
    THEN Res([f EXCEPT ![dest] = File(1 .. fault.k)], TRUE, "", 1, {}, dest)
    ELSE Res([f EXCEPT ![dest] = File(1 .. BodyChunks)], TRUE, "", 1, {}, dest)

\* GET the url; on a successful status create (truncate) dest and stream
\* the body into it.
Download(f, url, dest, fault) ==
    IF fault.at = "get" THEN Res(f, FALSE, "get", 1, {}, dest)
    ELSE IF ~IsDir(f, Parent(dest)) \/ IsDir(f, dest)
    THEN Res(f, FALSE, "create", 1, {}, dest)
    ELSE IF fault.at = "copy"
    THEN Res([f EXCEPT ![dest] = File(1 .. fault.k)], FALSE, "copy", 1, {}, dest)
    ELSE Res([f EXCEPT ![dest] = File(1 .. BodyChunks)], TRUE, "", 1, {}, dest)

(* ------------------------------------------------------------------ *)
(* DownloadManager::fetch                                               *)
(* ------------------------------------------------------------------ *)

\* A filter that skips an entry only when both filters are set.
SkippedWhenBoth(item, entry) ==
    /\ item.no_symlinks /\ entry.type = "Symlink"
    /\ item.no_colons /\ Contains(entry.path, ":")

\* The two `continue`s of the extraction loop.
Skipped(item, entry) ==
    \/ item.no_symlinks /\ entry.type = "Symlink"
    \/ item.no_colons /\ Contains(entry.path, ":")

\* for entry in archive.entries()? { ... entry.unpack_in(&dest)? }
\* from entry i on, with `done` the entries unpacked so far.
RECURSIVE UnpackEntries(_, _, _, _, _)
UnpackEntries(entries, i, item, fault, done) ==
    IF i > Len(entries) THEN [ok |-> TRUE, done |-> done]
    ELSE IF fault.at = "entry" /\ fault.k = i THEN [ok |-> FALSE, done |-> done]
    ELSE IF Skipped(item, entries[i])
    THEN UnpackEntries(entries, i + 1, item, fault, done)
    ELSE UnpackEntries(entries, i + 1, item, fault, done \cup {i})

\* xcommon::extract_zip(archive, dir): the members of the archive are
\* written below `root`, in order, until member failAt (0: none) fails.
ExtractZip(f, root, failAt) ==
    LET n == IF failAt = 0 THEN ZipMembers ELSE failAt - 1
    IN  IF n = 0 /\ ~Exists(f, root)
        THEN [fs |-> f, ok |-> failAt = 0]
        ELSE [fs |-> [CreateDirAll(f, root) EXCEPT ![root] = Dir(1 .. n)],
              ok |-> failAt = 0]

\* Whether an archive step left the output in place.
Unpacked(f, ok, err, done, archive) == Res(f, ok, err, 1, done, archive)

\* The .tar.zst branch after the entries were read: the unpacked ones are
\* in the output directory.
TarUnpacked(g, item, u, archive) ==
    Unpacked(IF u.done = {} THEN g ELSE [g EXCEPT ![item.output] = Dir(u.done)],
             u.ok, IF u.ok THEN "" ELSE "entry", u.done, archive)

\* The .tar.zst branch after the download.
TarDownloaded(d, item, fault, archive, dest) ==
    IF ~d.ok THEN d
    ELSE IF fault.at = "open"
    THEN [d EXCEPT !.ok = FALSE, !.err = "open"]
    ELSE IF fault.at = "mkdir" \/ ~CanCreateDirAll(d.fs, dest)
    THEN [d EXCEPT !.ok = FALSE, !.err = "mkdir"]
    ELSE TarUnpacked(CreateDirAll(d.fs, dest), item,
                     UnpackEntries(TarEntries, 1, item, fault, {}), archive)

\* name.ends_with(".tar.zst")
FetchTarZst(f, item, fault) ==
    TarDownloaded(Download(f, item.url, Join(DownloadDir, UrlName(item.url)), fault),
                  item, fault, Join(DownloadDir, UrlName(item.url)),
                  Parent(item.output))

\* An archive branch after its last unzip.
Unzipped(x, item, err, archive) ==
    Unpacked(x.fs, x.ok, IF x.ok THEN "" ELSE err, x.fs[item.output].data,
             archive)

\* The .framework.zip branch after the first unzip put the nested
\* archive into the framework staging directory.
FrameworkStaged(d, g, item, fault, archive) ==
    IF fault.at = "mkdir" \/ ~CanCreateDirAll(g, item.output)
    THEN [d EXCEPT !.ok = FALSE, !.err = "mkdir", !.fs = g]
    ELSE Unzipped(ExtractZip(CreateDirAll(g, item.output), item.output,
                             IF fault.at = "unzip2" THEN fault.k ELSE 0),
                  item, "unzip2", archive)

\* The .framework.zip branch after the download.
FrameworkDownloaded(d, item, fault, archive, framework_dir, nested) ==
    IF ~d.ok THEN d
    ELSE IF fault.at = "unzip1"
    THEN [d EXCEPT !.ok = FALSE, !.err = "unzip1",
                   !.fs = [CreateDirAll(d.fs, framework_dir)
                              EXCEPT ![nested] = File({})]]
    ELSE FrameworkStaged(d, [CreateDirAll(d.fs, framework_dir)
                                EXCEPT ![nested] = File(1 .. BodyChunks)],
                         item, fault, archive)

\* name.ends_with(".framework.zip")
FetchFrameworkZip(f, item, fault) ==
    FrameworkDownloaded(
        Download(f, item.url, Join(DownloadDir, UrlName(item.url)), fault),
        item, fault, Join(DownloadDir, UrlName(item.url)),
        Join(DownloadDir, <<"framework">>),
        Join(Join(DownloadDir, <<"framework">>), UrlName(item.url)))

\* The .zip branch after the download.
ZipDownloaded(d, item, fault, archive) ==
    IF ~d.ok THEN d
    ELSE Unzipped(ExtractZip(d.fs, item.output,
                             IF fault.at = "unzip" THEN fault.k ELSE 0),
                  item, "unzip", archive)

\* name.ends_with(".zip")
FetchZip(f, item, fault) ==
    ZipDownloaded(Download(f, item.url, Join(DownloadDir, UrlName(item.url)), fault),
                  item, fault, Join(DownloadDir, UrlName(item.url)))

\* anything else
FetchPlain(f, item, fault) == Download(f, item.url, item.output, fault)

\* The closure of fetch: dispatch on the name's extension.
FetchBody(f, item, fault) ==
    IF EndsWith(UrlName(item.url), <<"tar", "zst">>)
    THEN FetchTarZst(f, item, fault)
    ELSE IF EndsWith(UrlName(item.url), <<"framework", "zip">>)
    THEN FetchFrameworkZip(f, item, fault)
    ELSE IF EndsWith(UrlName(item.url), <<"zip">>)
    THEN FetchZip(f, item, fault)
    ELSE FetchPlain(f, item, fault)

\* A cleanup that forgets directories.
CleanupFilesOnly(f, output) == RemoveFile(f, output)

\* if result.is_err() { remove_dir_all or remove_file }
Cleanup(f, output) ==
    IF IsDir(f, output) THEN RemoveDirAll(f, output) ELSE RemoveFile(f, output)

\* An early return that is never taken.
AlreadyFetchedNever(f, item) == FALSE

\* An early return taken for directories only.
AlreadyFetchedDirOnly(f, item) == IsDir(f, item.output)

\* if item.output.exists() { return Ok(()) }
AlreadyFetched(f, item) == Exists(f, item.output)

\* The end of fetch: the result of the closure, cleaned up on error;
\* `cleaned`: the cleanup removed something.
FetchEnd(r, item) ==
    IF r.ok
    THEN [fs |-> r.fs, ok |-> TRUE, err |-> "", gets |-> r.gets,
          unpacked |-> r.unpacked, dest |-> r.dest, cleaned |-> FALSE]
    ELSE [fs |-> Cleanup(r.fs, item.output), ok |-> FALSE,
          err |-> r.err, gets |-> r.gets, unpacked |-> r.unpacked,
          dest |-> r.dest, cleaned |-> Exists(r.fs, item.output)]

\* DownloadManager::fetch
Fetch(f, item, fault) ==
    IF AlreadyFetched(f, item)
    THEN [fs |-> f, ok |-> TRUE, err |-> "", gets |-> 0, unpacked |-> {},
          dest |-> <<>>, cleaned |-> FALSE]
    ELSE FetchEnd(FetchBody(f, item, fault), item)

(* ------------------------------------------------------------------ *)
(* The fetch engine: any sequence of fetch calls                        *)
(* ------------------------------------------------------------------ *)

Org == <<"cloudpeers">>

Repo == <<"x">>

Tag == <<"v0", "1", "0+2">>

\* One WorkItem per dispatch branch, with the two filters of the archive
\* item as the configuration chose them. The parents of the outputs
\* (cache/sdk, cache/engine) do not exist at the start.
TarItem(e) ==
    LET item == GithubRelease(Join(Join(CacheDir, <<"sdk">>), <<"Windows", "sdk">>),
                              Org, Repo, Tag, <<"Windows", "sdk", "tar", "zst">>)
        a == IF e.no_symlinks THEN NoSymlinks(item) ELSE item
    IN  IF e.no_colons THEN NoColons(a) ELSE a

FrameworkItem ==
    GithubRelease(Join(Join(CacheDir, <<"engine">>), <<"Flutter", "framework">>),
                  Org, Repo, Tag, <<"Flutter", "framework", "zip">>)

ZipItem ==
    GithubRelease(Join(Join(CacheDir, <<"engine">>), <<"artifacts">>),
                  Org, Repo, Tag, <<"artifacts", "zip">>)

PlainItem ==
    GithubRelease(Join(Join(CacheDir, <<"engine">>), <<"r8", "jar">>),
                  Org, Repo, Tag, <<"r8", "jar">>)

WorkItems(e) == {TarItem(e), FrameworkItem, ZipItem, PlainItem}

\* The paths a set of items can touch: outputs, staging files, the
\* framework staging directory, and all their ancestors.
Tracked(items) ==
    LET leaves == {i.output : i \in items}
                  \cup {Join(DownloadDir, UrlName(i.url)) : i \in items}
                  \cup {Join(Join(DownloadDir, <<"framework">>), UrlName(i.url)) :
                           i \in items}
    IN  leaves \cup UNION {Ancestors(p) : p \in leaves}

\* DownloadManager::new: <cache>/download exists, nothing else.
NewCache(items) ==
    [p \in Tracked(items) |->
        IF p \in {CacheDir, DownloadDir} THEN Dir({}) ELSE None]

\* The record of the latest call: its item and what Fetch returned, whether
\* the output existed when it started, and the item and result of the call
\* before it.
CallRecord(item, r, f, prev) ==
    [op |-> "fetch", item |-> item, ok |-> r.ok, err |-> r.err,
     gets |-> r.gets, unpacked |-> r.unpacked, dest |-> r.dest,
     cleaned |-> r.cleaned, pre |-> Exists(f, item.output),
     prevSame |-> prev.op = "fetch" /\ prev.item = item,
     prevOk |-> prev.op = "fetch" /\ prev.ok]

NoCall == [op |-> "none"]

\* The archive item with symbolic links kept or skipped.
Init ==
    /\ env \in [no_symlinks : BOOLEAN, no_colons : {FALSE}]
    /\ fs = NewCache(WorkItems(env))
    /\ last = NoCall

FetchCall(item, fault) ==
    \E r \in {Fetch(fs, item, fault)} :
        /\ fs' = r.fs
        /\ last' = CallRecord(item, r, fs, last)
        /\ UNCHANGED env

\* The faults that can strike a fetch of this item.
FaultsOf(item) ==
    LET name == UrlName(item.url)
    IN  DownloadFaults \cup
        (IF EndsWith(name, <<"tar", "zst">>) THEN TarFaults
         ELSE IF EndsWith(name, <<"framework", "zip">>) THEN FrameworkFaults
         ELSE IF EndsWith(name, <<"zip">>) THEN ZipFaults
         ELSE {})

Next == \E item \in WorkItems(env) : \E fault \in FaultsOf(item) : FetchCall(item, fault)

Spec == Init /\ [][Next]_vars

(* ------------------------------------------------------------------ *)
(* The archive branch alone, under every combination of the filters     *)
(* ------------------------------------------------------------------ *)

\* A second archive, unpacked into the cache directory itself.
TarItem2(e) ==
    LET item == GithubRelease(Join(CacheDir, <<"MacOSX", "sdk">>),
                              Org, Repo, Tag, <<"MacOSX", "sdk", "tar", "zst">>)
        a == IF e.no_symlinks THEN NoSymlinks(item) ELSE item
    IN  IF e.no_colons THEN NoColons(a) ELSE a

TarItems(e) == {TarItem(e), TarItem2(e)}

InitTar ==
    /\ env \in [no_symlinks : BOOLEAN, no_colons : BOOLEAN]
    /\ fs = NewCache(TarItems(env))
    /\ last = NoCall

NextTar == \E item \in TarItems(env) : \E fault \in FaultsOf(item) : FetchCall(item, fault)

SpecTar == InitTar /\ [][NextTar]_vars

(* ------------------------------------------------------------------ *)
(* Claims about fetch                                                   *)
(* ------------------------------------------------------------------ *)

IsSymlink(i) == TarEntries[i].type = "Symlink"

HasColon(i) == Contains(TarEntries[i].path, ":")

\* The whole artifact of an item is at its output path.
IsComplete(f, item) ==
    LET name == UrlName(item.url)
        node == f[item.output]
    IN  IF EndsWith(name, <<"tar", "zst">>)
        THEN /\ node.kind = "dir"
             /\ node.data = {i \in 1 .. Len(TarEntries) :
                                /\ ~(item.no_symlinks /\ IsSymlink(i))
                                /\ ~(item.no_colons /\ HasColon(i))}
        ELSE IF EndsWith(name, <<"zip">>)
        THEN node.kind = "dir" /\ node.data = 1 .. ZipMembers
        ELSE node.kind = "file" /\ node.data = 1 .. BodyChunks

C2_NoOutputAfterError ==
    (last.op = "fetch" /\ ~last.ok) => fs[last.item.output] = None

\* An extraction failed midway, after entries had been unpacked.
C2_Witness ==
    /\ last.op = "fetch" /\ ~last.ok
    /\ last.err \in {"entry", "unzip", "unzip2"}
    /\ last.unpacked # {}
    /\ fs[last.item.output] = None

\* C3 as claimed: the second of two successive fetch calls of one item
\* issues no GET, extracts nothing and returns success.
C3_SecondCallIsNoOp ==
    (last.op = "fetch" /\ last.prevSame) =>
        (last.ok /\ last.gets = 0 /\ last.unpacked = {})

\* C3, amended: after a fetch that returned success, an immediately
\* following fetch of the same item issues no GET, extracts nothing and
\* returns success.
C3_SecondCallAfterSuccessIsNoOp ==
    (last.op = "fetch" /\ last.prevSame /\ last.prevOk) =>
        (last.ok /\ last.gets = 0 /\ last.unpacked = {} /\ last.dest = <<>>)

\* The same item was fetched twice in succession and the first call
\* succeeded with a download.
C3_Witness ==
    /\ last.op = "fetch" /\ last.prevSame /\ last.prevOk
    /\ last.pre /\ last.gets = 0

\* C4: a fetch of an item whose output exists returns success and leaves
\* the file system as it was: no GET, no staging file, nothing cleaned up;
\* the cleanup only ever removes a path that was absent at the call.
C4_ExistingOutputUntouched ==
    [][ /\ (last'.op = "fetch" /\ Exists(fs, last'.item.output)) =>
            (/\ fs' = fs
             /\ last'.ok /\ last'.gets = 0
             /\ last'.dest = <<>> /\ ~last'.cleaned)
        /\ (last'.op = "fetch" /\ last'.cleaned) =>
            ~Exists(fs, last'.item.output) ]_vars

\* A fetch was called on an output that existed, with the staged archive
\* of an earlier, failed fetch of another item still in the cache.
C4_Witness ==
    /\ last.op = "fetch" /\ last.pre /\ last.ok
    /\ \E item \in WorkItems(env) :
          /\ item # last.item
          /\ ~Exists(fs, item.output)
          /\ Exists(fs, Join(DownloadDir, UrlName(item.url)))

\* C5: a successful extraction of a .tar.zst leaves exactly the entries
\* no enabled filter excludes: no link with no_symlinks, no colon-named
\* entry with no_colons, every other entry; whether a link is kept does
\* not depend on no_colons, nor a colon-named entry on no_symlinks.
C5_FiltersDecideEntries ==
    (last.op = "fetch" /\ last.ok /\ ~last.pre) =>
        /\ fs[last.item.output].data = last.unpacked
        /\ \A i \in 1 .. Len(TarEntries) :
              /\ (last.item.no_symlinks /\ IsSymlink(i)) => i \notin last.unpacked
              /\ (last.item.no_colons /\ HasColon(i)) => i \notin last.unpacked
              /\ (~IsSymlink(i) /\ ~HasColon(i)) => i \in last.unpacked
              /\ (~last.item.no_symlinks /\ ~HasColon(i)) => i \in last.unpacked
              /\ (~last.item.no_colons /\ ~IsSymlink(i)) => i \in last.unpacked
              /\ (~last.item.no_symlinks /\ ~last.item.no_colons) =>
                    i \in last.unpacked

\* An archive was extracted with one filter set and the other not: the
\* link is gone, the man page with the colon is there.
C5_Witness ==
    /\ last.op = "fetch" /\ last.ok /\ ~last.pre
    /\ last.item.no_symlinks /\ ~last.item.no_colons
    /\ \E i \in last.unpacked : HasColon(i)
    /\ \E i \in 1 .. Len(TarEntries) : IsSymlink(i) /\ i \notin last.unpacked

(* ------------------------------------------------------------------ *)
(* Target model and toolchain locator                                   *)
(* ------------------------------------------------------------------ *)

Platforms == {"Linux", "Windows", "Macos", "Android", "Ios"}

Archs == {"X64", "Arm64"}

Opts == {"Debug", "Release"}

\* The operating systems the tool can be compiled for; "Other" is one
\* that is none of linux, macos, windows.
HostOses == {"Linux", "Macos", "Windows", "Other"}

\* cfg!(target_os = "...")
CfgTargetOs(e, os) == e.host = os

\* Platform::host(): the platform of the running build, or an error on an
\* unsupported operating system.
PlatformHost(e) ==
    IF e.host \in Platforms THEN [ok |-> TRUE, val |-> e.host]
    ELSE [ok |-> FALSE, val |-> "unsupported host"]

\* CompileTarget::new
CompileTarget(platform, arch, opt) ==
    [platform |-> platform, arch |-> arch, opt |-> opt]

\* Display of Opt, Platform, Arch: one path component each.
OptString(opt) == IF opt = "Debug" THEN <<"debug">> ELSE <<"release">>

PlatformString(platform) ==
    CASE platform = "Linux" -> <<"linux">>
      [] platform = "Windows" -> <<"windows">>
      [] platform = "Macos" -> <<"macos">>
      [] platform = "Android" -> <<"android">>
      [] platform = "Ios" -> <<"ios">>

ArchString(arch) == IF arch = "X64" THEN <<"x64">> ELSE <<"arm64">>

\* Flutter::artifact_version("engine"): the trimmed content of the marker
\* bin/internal/engine.version, an error when the marker is missing.
EngineVersion(e) ==
    IF e.marker = "missing"
    THEN [ok |-> FALSE, val |-> "failed to locate engine.version"]
    ELSE [ok |-> TRUE, val |-> <<e.marker>>]

\* An engine directory that leaves the architecture out.
EnginePathWithoutArch(cache, version, target) ==
    Join(Join(Join(Join(cache, <<"engine">>), version),
              OptString(target.opt)),
         PlatformString(target.platform))

\* cache.join("engine").join(version).join(opt).join(platform).join(arch)
EnginePath(cache, version, target) ==
    Join(Join(Join(Join(Join(cache, <<"engine">>), version),
                   OptString(target.opt)),
              PlatformString(target.platform)),
         ArchString(target.arch))

\* Flutter::engine_dir
EngineDir(e, target) ==
    LET v == EngineVersion(e)
    IN  IF v.ok THEN [ok |-> TRUE, val |-> EnginePath(CacheDir, v.val, target)]
        ELSE v

(* ------------------------------------------------------------------ *)
(* The SDK work items and DownloadManager::prefetch                     *)
(* ------------------------------------------------------------------ *)

\* BuildEnv::windows_sdk, macos_sdk, android_ndk, ios_sdk, android_sdk:
\* directories of the cache.
SdkDir(name) == Join(CacheDir, name)

AndroidJarPath ==
    Join(Join(Join(SdkDir(<<"Android", "sdk">>), <<"platforms">>),
              <<"android-sdk">>), <<"android", "jar">>)

\* DownloadManager::windows_sdk, the item it fetches
WindowsSdkItem(e) ==
    LET item == GithubRelease(SdkDir(<<"Windows", "sdk">>), Org, Repo, Tag,
                              <<"Windows", "sdk", "tar", "zst">>)
    IN  IF ~CfgTargetOs(e, "Linux") THEN NoSymlinks(item) ELSE item

\* A macOS SDK item whose colon filter follows the target of the build.
MacosSdkItemColonsByTarget(e) ==
    LET item == GithubRelease(SdkDir(<<"MacOSX", "sdk">>), Org, Repo, Tag,
                              <<"MacOSX", "sdk", "tar", "zst">>)
    IN  IF e.target.platform = "Macos" THEN NoColons(item) ELSE item

\* DownloadManager::macos_sdk, the item it fetches
MacosSdkItem(e) ==
    LET item == GithubRelease(SdkDir(<<"MacOSX", "sdk">>), Org, Repo, Tag,
                              <<"MacOSX", "sdk", "tar", "zst">>)
    IN  IF CfgTargetOs(e, "Windows") THEN NoColons(item) ELSE item

\* DownloadManager::android_ndk, the item it fetches
AndroidNdkItem(e) ==
    GithubRelease(SdkDir(<<"Android", "ndk">>), Org, Repo, Tag,
                  <<"Android", "ndk", "tar", "zst">>)

\* DownloadManager::ios_sdk, the item it fetches
IosSdkItem(e) ==
    LET item == GithubRelease(SdkDir(<<"iPhoneOS", "sdk">>), Org, Repo, Tag,
                              <<"iPhoneOS", "sdk", "tar", "zst">>)
    IN  IF CfgTargetOs(e, "Windows") THEN NoColons(item) ELSE item

\* DownloadManager::flutter_engine(target): the engine artifacts of one
\* compile target, unzipped into the target's engine directory.
FlutterEngineItem(e, target) ==
    New(Join(EngineDir(e, target).val, <<"artifacts">>),
        << <<"https:">>, <<>>, <<"storage", "googleapis", "com">>,
           <<"flutter_infra_release">>, <<"flutter">>, <<e.marker>>,
           PlatformString(target.platform) \o ArchString(target.arch)
              \o OptString(target.opt),
           <<"artifacts", "zip">> >>)

\* DownloadManager::material_fonts
MaterialFontsItem(e) ==
    New(Join(Join(CacheDir, <<"material_fonts">>), <<"fonts">>),
        << <<"https:">>, <<>>, <<"storage", "googleapis", "com">>,
           <<"flutter_infra_release">>, <<"flutter">>, <<"fonts">>,
           <<"fonts", "zip">> >>)

\* DownloadManager::r8: a jar kept in the cache directory.
R8Item(e) ==
    New(Join(CacheDir, <<"r8", "jar">>),
        << <<"https:">>, <<>>, <<"maven", "google", "com">>, <<"r8", "jar">> >>)

\* DownloadManager::flutter_embedding: a jar kept in the cache directory.
FlutterEmbeddingItem(e) ==
    New(Join(CacheDir, <<"flutter_embedding", "jar">>),
        << <<"https:">>, <<>>, <<"storage", "googleapis", "com">>,
           <<"flutter_embedding", "jar">> >>)

Step(kind, item) == [kind |-> kind, item |-> item]

\* android_jar fetches through the SDK manager, not through a WorkItem.
NoItem == New(AndroidJarPath, << <<"sdkmanager">>, <<"android", "jar">> >>)

\* A guard that never refuses a cross build to Linux.
CrossLinuxAllowed(platform, host) == FALSE

\* Platform::Linux if Platform::host()? != Platform::Linux
CrossLinux(platform, host) == platform = "Linux" /\ host # "Linux"

\* A guard that fetches the Windows SDK on every host.
CrossWindowsAnyHost(platform, host) == platform = "Windows"

\* Platform::Windows if Platform::host()? != Platform::Windows
CrossWindows(platform, host) == platform = "Windows" /\ host # "Windows"

\* Platform::Macos if Platform::host()? != Platform::Macos
CrossMacos(platform, host) == platform = "Macos" /\ host # "Macos"

\* The match of prefetch: an error before any fetch, or the SDK steps.
SdkSteps(e) ==
    LET h == PlatformHost(e)
        p == e.target.platform
    IN  IF p \in {"Linux", "Windows", "Macos"} /\ ~h.ok
        THEN [err |-> h.val, steps |-> <<>>]
        ELSE IF CrossLinux(p, h.val)
        THEN [err |-> "cross compiling to linux is not yet supported",
              steps |-> <<>>]
        ELSE IF CrossWindows(p, h.val)
        THEN [err |-> "", steps |-> <<Step("windows_sdk", WindowsSdkItem(e))>>]
        ELSE IF CrossMacos(p, h.val)
        THEN [err |-> "", steps |-> <<Step("macos_sdk", MacosSdkItem(e))>>]
        ELSE IF p = "Android"
        THEN [err |-> "", steps |-> <<Step("android_ndk", AndroidNdkItem(e)),
                                      Step("android_jar", NoItem)>>]
        ELSE IF p = "Ios"
        THEN [err |-> "", steps |-> <<Step("ios_sdk", IosSdkItem(e))>>]
        ELSE [err |-> "", steps |-> <<>>]

\* BuildTarget::compile_targets: one compile target per architecture.
CompileTargets(e) ==
    [i \in 1 .. Len(e.target.archs) |->
        CompileTarget(e.target.platform, e.target.archs[i], e.target.opt)]

\* A Flutter part that leaves the engine of the host out.
FlutterStepsWithoutHost(e, build_classes_dex) ==
    [err |-> "",
     steps |->
        [i \in 1 .. Len(e.target.archs) |->
            Step("flutter_engine", FlutterEngineItem(e, CompileTargets(e)[i]))]
        \o <<Step("material_fonts", MaterialFontsItem(e))>>
        \o (IF build_classes_dex /\ e.target.platform = "Android"
            THEN <<Step("r8", R8Item(e)),
                   Step("flutter_embedding", FlutterEmbeddingItem(e))>>
            ELSE <<>>)]

\* The body of `if self.env.flutter().is_some()`.
FlutterSteps(e, build_classes_dex) ==
    LET h == PlatformHost(e)
        v == EngineVersion(e)
    IN  IF ~h.ok THEN [err |-> h.val, steps |-> <<>>]
        ELSE IF ~v.ok THEN [err |-> v.val, steps |-> <<>>]
        ELSE LET host == CompileTarget(h.val, e.harch, "Debug")
                 targets == Append(CompileTargets(e), host)
             IN  [err |-> "",
                  steps |->
                    [i \in 1 .. Len(targets) |->
                        Step("flutter_engine", FlutterEngineItem(e, targets[i]))]
                    \o <<Step("material_fonts", MaterialFontsItem(e))>>
                    \o (IF build_classes_dex /\ e.target.platform = "Android"
                        THEN <<Step("r8", R8Item(e)),
                               Step("flutter_embedding", FlutterEmbeddingItem(e))>>
                        ELSE <<>>)]

\* DownloadManager::android_jar
AndroidJar(f) ==
    IF Exists(f, AndroidJarPath) THEN f
    ELSE [CreateDirAll(f, Parent(AndroidJarPath))
             EXCEPT ![AndroidJarPath] = File(1 .. BodyChunks)]

\* What prefetch keeps of a fetch.
StepResult(r) == [fs |-> r.fs, ok |-> r.ok, gets |-> r.gets]

\* One step of prefetch, with the fault that strikes it.
RunStep(f, step, fault) ==
    IF step.kind = "android_jar"
    THEN [fs |-> AndroidJar(f), ok |-> TRUE, gets |-> 0]
    ELSE StepResult(Fetch(f, step.item, fault))

\* The record of one step in the list of attempts.
Attempt(step, r) ==
    [kind |-> step.kind, item |-> step.item, ok |-> r.ok, gets |-> r.gets]

\* The steps from the i-th on, each ended by `?`; `n` steps ran before
\* these, and the failStep-th step of the whole call meets the fault.
RECURSIVE RunSteps(_, _, _, _, _, _, _)
RECURSIVE AfterStep(_, _, _, _, _, _, _)
\* A step whose error is dropped: the next step runs all the same.
AfterStepContinuing(r, steps, i, n, failStep, fault, attempts) ==
    RunSteps(r.fs, steps, i + 1, n, failStep, fault,
             Append(attempts, Attempt(steps[i], r)))

AfterStep(r, steps, i, n, failStep, fault, attempts) ==
    IF r.ok
    THEN RunSteps(r.fs, steps, i + 1, n, failStep, fault,
                  Append(attempts, Attempt(steps[i], r)))
    ELSE [fs |-> r.fs, ok |-> FALSE, err |-> steps[i].kind,
          attempts |-> Append(attempts, Attempt(steps[i], r))]

RunSteps(f, steps, i, n, failStep, fault, attempts) ==
    IF i > Len(steps)
    THEN [fs |-> f, ok |-> TRUE, err |-> "", attempts |-> attempts]
    ELSE AfterStep(RunStep(f, steps[i],
                           IF n + i = failStep THEN fault ELSE NoFault),
                   steps, i, n, failStep, fault, attempts)

\* The part of prefetch after the SDK steps.
PrefetchFlutter(r, e, fl, n, failStep, fault) ==
    IF ~r.ok \/ ~e.flutter THEN r
    ELSE IF fl.err # "" THEN [r EXCEPT !.ok = FALSE, !.err = fl.err]
    ELSE RunSteps(r.fs, fl.steps, 1, n, failStep, fault, r.attempts)

\* The part of prefetch after the match on the target platform.
PrefetchSdk(f, e, sdk, build_classes_dex, failStep, fault) ==
    IF sdk.err # ""
    THEN [fs |-> f, ok |-> FALSE, err |-> sdk.err, attempts |-> <<>>]
    ELSE PrefetchFlutter(RunSteps(f, sdk.steps, 1, 0, failStep, fault, <<>>),
                         e, FlutterSteps(e, build_classes_dex),
                         Len(sdk.steps), failStep, fault)

\* DownloadManager::prefetch
Prefetch(f, e, build_classes_dex, failStep, fault) ==
    PrefetchSdk(f, e, SdkSteps(e), build_classes_dex, failStep, fault)

\* Every item a prefetch of this environment can fetch.
PrefetchItems(e) ==
    LET steps == SdkSteps(e).steps
                 \o (IF e.flutter THEN FlutterSteps(e, TRUE).steps ELSE <<>>)
    IN  {steps[i].item : i \in 1 .. Len(steps)} \cup {NoItem}

\* The faults a step of prefetch can meet.
PrefetchFaults == {[at |-> "get", k |-> 0], [at |-> "copy", k |-> 0]}

\* The number of steps of a prefetch that nothing stops.
PlanLength(e, build_classes_dex) ==
    Len(SdkSteps(e).steps)
    + (IF e.flutter THEN Len(FlutterSteps(e, build_classes_dex).steps) ELSE 0)

\* The build target is one platform with one architecture in a release
\* build or two in a debug build.
BuildTargets ==
    [platform : Platforms, archs : {<<"X64">>}, opt : {"Release"}]
    \cup [platform : Platforms, archs : {<<"Arm64", "X64">>}, opt : {"Debug"}]

InitPrefetch ==
    /\ env \in [host : HostOses, harch : Archs, target : BuildTargets,
                flutter : BOOLEAN, marker : {"e1"}]
    /\ fs = NewCache(PrefetchItems(env))
    /\ last = NoCall

PrefetchCall(build_classes_dex, failStep, fault) ==
    \E r \in {Prefetch(fs, env, build_classes_dex, failStep, fault)} :
        /\ fs' = r.fs
        /\ last' = [op |-> "prefetch", ok |-> r.ok, err |-> r.err,
                    attempts |-> r.attempts,
                    build_classes_dex |-> build_classes_dex]
        /\ UNCHANGED env

NextPrefetch ==
    \E build_classes_dex \in BOOLEAN :
        \/ PrefetchCall(build_classes_dex, 0, NoFault)
        \/ \E failStep \in 1 .. PlanLength(env, build_classes_dex) :
              \E fault \in PrefetchFaults :
                 PrefetchCall(build_classes_dex, failStep, fault)

SpecPrefetch == InitPrefetch /\ [][NextPrefetch]_vars

(* ------------------------------------------------------------------ *)
(* Flutter: engine directories and host-file lookups                    *)
(* ------------------------------------------------------------------ *)

\* The contents the marker engine.version can have: one path component.
Versions == {"e1", "e2"}

\* exe!(name): the name of an executable on the platform of the build.
Exe(e, name) == IF CfgTargetOs(e, "Windows") THEN name \o <<"exe">> ELSE name

\* The lookups that go through host_file.
HostLookups ==
    {"icudtl_dat", "isolate_snapshot_data", "vm_snapshot_data", "dart",
     "sky_engine", "frontend_server", "sdk_root"}

\* The path each lookup hands to host_file, relative to the engine
\* directory; kernel_blob_bin picks the SDK root by the opt of the build.
LookupPath(e, lookup) ==
    CASE lookup = "icudtl_dat" -> << <<"icudtl", "dat">> >>
      [] lookup = "isolate_snapshot_data" -> << <<"isolate_snapshot", "bin">> >>
      [] lookup = "vm_snapshot_data" -> << <<"vm_isolate_snapshot", "bin">> >>
      [] lookup = "dart" -> << <<"dart-sdk">>, <<"bin">>, Exe(e, <<"dart">>) >>
      [] lookup = "sky_engine" -> << <<"sky_engine">> >>
      [] lookup = "frontend_server"
            -> << <<"frontend_server", "dart", "snapshot">> >>
      [] lookup = "sdk_root"
            -> IF e.target.opt = "Release"
               THEN << <<"flutter_patched_sdk_product">> >>
               ELSE << <<"flutter_patched_sdk">> >>

Found(p) == [ok |-> TRUE, val |-> p, err |-> "", path |-> p]

Failed(msg, p) == [ok |-> FALSE, val |-> <<>>, err |-> msg, path |-> p]

\* anyhow::ensure!(path.exists(), "failed to locate {}", path.display())
Located(f, p) ==
    IF Exists(f, p) THEN Found(p) ELSE Failed("failed to locate", p)

\* host_file after engine_dir(host)?
HostFileIn(f, d, path) ==
    IF ~d.ok THEN Failed(d.val, <<>>) ELSE Located(f, d.val \o path)

\* A host_file that looks in the engine directory of the build's first
\* compile target.
HostFileOfBuildTarget(f, e, path) ==
    HostFileIn(f, EngineDir(e, CompileTargets(e)[1]), path)

\* Flutter::host_file
HostFile(f, e, path) ==
    IF ~PlatformHost(e).ok THEN Failed(PlatformHost(e).val, <<>>)
    ELSE HostFileIn(f, EngineDir(e, CompileTarget(PlatformHost(e).val,
                                                  e.harch, "Debug")),
                    path)

\* The engine directories a build touches: those of its compile targets
\* and that of the host.
BuildEngineDirs(e) ==
    {EnginePath(CacheDir, <<e.marker>>, t) :
        t \in {CompileTargets(e)[i] : i \in 1 .. Len(e.target.archs)}
              \cup (IF PlatformHost(e).ok
                    THEN {CompileTarget(e.host, e.harch, "Debug")} ELSE {})}

\* The looked-up files of the host's engine directory.
HostPaths(e, lookups) ==
    IF PlatformHost(e).ok
    THEN {EnginePath(CacheDir, <<e.marker>>,
                     CompileTarget(e.host, e.harch, "Debug"))
          \o LookupPath(e, l) : l \in lookups}
    ELSE {}

\* The cache of a build: the looked-up files of the host's engine
\* directory except the absent ones and, with targetHas, files of the
\* same names in the compile targets' directories.
LocateCache(e, absent, targetHas) ==
    [p \in {d \o LookupPath(e, l) : d \in BuildEngineDirs(e), l \in HostLookups}
       |-> IF p \in HostPaths(e, HostLookups)
           THEN IF p \in HostPaths(e, HostLookups \ absent)
                THEN File(1 .. BodyChunks) ELSE None
           ELSE IF targetHas THEN File(1 .. BodyChunks) ELSE None]

InitLocate ==
    /\ env \in [host : HostOses, harch : Archs, target : BuildTargets,
                flutter : {TRUE}, marker : Versions \cup {"missing"}]
    /\ \E absent \in {{}, HostLookups, {"dart"}, {"sdk_root"}} :
          \E targetHas \in BOOLEAN :
             fs = LocateCache(env, absent, targetHas)
    /\ last = NoCall

\* A call of engine_dir.
EngineDirCall(target) ==
    \E r \in {EngineDir(env, target)} :
        /\ last' = [op |-> "engine_dir", target |-> target, ok |-> r.ok,
                    version |-> env.marker,
                    out |-> IF r.ok THEN r.val ELSE <<>>]
        /\ UNCHANGED <<env, fs>>

\* A call of one of the lookups.
HostFileCall(lookup) ==
    \E r \in {HostFile(fs, env, LookupPath(env, lookup))} :
        /\ last' = [op |-> "host_file", lookup |-> lookup,
                    rel |-> LookupPath(env, lookup), ok |-> r.ok,
                    val |-> r.val, err |-> r.err, path |-> r.path]
        /\ UNCHANGED <<env, fs>>

NextLocate ==
    \/ \E platform \in Platforms : \E arch \in Archs : \E opt \in Opts :
          EngineDirCall(CompileTarget(platform, arch, opt))
    \/ \E lookup \in HostLookups : HostFileCall(lookup)

SpecLocate == InitLocate /\ [][NextLocate]_vars

(* ------------------------------------------------------------------ *)
(* Claims about the toolchain locator                                   *)
(* ------------------------------------------------------------------ *)

\* C9: the directory engine_dir resolves has the shape
\* <cache>/engine/<version>/<opt>/<platform>/<arch>, and the directory of
\* any tuple (version, opt, platform, arch) that differs in a field is a
\* different path, neither a prefix of the other.
C9_EngineDirSeparatesKeys ==
    (last.op = "engine_dir" /\ last.ok) =>
        /\ last.out = CacheDir \o << <<"engine">>, <<last.version>>,
                                    OptString(last.target.opt),
                                    PlatformString(last.target.platform),
                                    ArchString(last.target.arch) >>
        /\ \A v \in Versions : \A platform \in Platforms :
              \A arch \in Archs : \A opt \in Opts :
                 (<<v, CompileTarget(platform, arch, opt)>>
                     # <<last.version, last.target>>)
                 => LET other == EngineDir([env EXCEPT !.marker = v],
                                           CompileTarget(platform, arch, opt)).val
                    IN  /\ other # last.out
                        /\ ~IsPrefix(other, last.out)
                        /\ ~IsPrefix(last.out, other)

\* engine_dir resolved the directory of (e2, Release, Ios, Arm64).
C9_Witness ==
    /\ last.op = "engine_dir" /\ last.ok
    /\ last.version = "e2"
    /\ last.target = CompileTarget("Ios", "Arm64", "Release")
    /\ Len(last.out) = Len(CacheDir) + 5

\* C10: a lookup that succeeds returns the existing path under the engine
\* directory of (host platform, host arch, Debug), whatever the build
\* target is; when that file does not exist the lookup returns an error
\* that names that path, and no other path.
C10_HostFileUnderHostDebug ==
    last.op = "host_file" =>
        /\ last.ok => PlatformHost(env).ok /\ EngineVersion(env).ok
        /\ (PlatformHost(env).ok /\ EngineVersion(env).ok) =>
              LET expected ==
                      CacheDir \o << <<"engine">>, <<env.marker>>, <<"debug">>,
                                     PlatformString(env.host),
                                     ArchString(env.harch) >>
                      \o last.rel
              IN  /\ last.ok => last.val = expected /\ Exists(fs, expected)
                  /\ ~Exists(fs, expected)
                        => /\ ~last.ok /\ last.val = <<>>
                           /\ last.err = "failed to locate"
                           /\ last.path = expected

\* The lookup of the SDK root in a release build for Android failed on a
\* macOS host, though the engine directory of the build target holds a
\* file of that name.
C10_Witness ==
    /\ last.op = "host_file" /\ last.lookup = "sdk_root" /\ ~last.ok
    /\ last.err = "failed to locate"
    /\ env.host = "Macos" /\ env.target.platform = "Android"
    /\ env.target.opt = "Release"
    /\ last.path[Len(CacheDir) + 3] = <<"debug">>
    /\ \E p \in DOMAIN fs : Exists(fs, p) /\ p[Len(CacheDir) + 3] = <<"release">>

(* ------------------------------------------------------------------ *)
(* Claims about prefetch                                                *)
(* ------------------------------------------------------------------ *)

\* C6: for the build target (Windows, X64, Release) on a Linux host,
\* prefetch fetches the Windows SDK archive, and the WorkItem windows_sdk
\* passes to fetch has no_symlinks set.
C6_WindowsSdkOnLinuxSkipsLinks ==
    (/\ last.op = "prefetch"
     /\ env.host = "Linux"
     /\ env.target = [platform |-> "Windows", archs |-> <<"X64">>,
                      opt |-> "Release"])
    => /\ last.attempts # <<>>
       /\ last.attempts[1].kind = "windows_sdk"
       /\ last.attempts[1].item.no_symlinks

\* C7: prefetch never attempts the SDK of the platform the host is; the
\* Windows SDK is attempted only when the target is Windows and the host
\* is not, the macOS SDK only when the target is macOS and the host is not.
C7_NoSdkOfTheHost ==
    last.op = "prefetch" =>
        \A i \in 1 .. Len(last.attempts) :
            /\ last.attempts[i].kind = "windows_sdk"
                  => env.target.platform = "Windows" /\ env.host # "Windows"
            /\ last.attempts[i].kind = "macos_sdk"
                  => env.target.platform = "Macos" /\ env.host # "Macos"
            /\ last.attempts[i].kind \in {"android_ndk", "android_jar"}
                  => env.host # "Android"
            /\ last.attempts[i].kind = "ios_sdk" => env.host # "Ios"

\* A prefetch for a Windows target on a Windows host went through: it
\* fetched the engines, and nothing for the platform itself.
C7_Witness ==
    /\ last.op = "prefetch" /\ last.ok
    /\ env.target.platform = "Windows" /\ env.host = "Windows"
    /\ last.attempts # <<>>
    /\ last.attempts[1].kind = "flutter_engine"

\* C8: a prefetch for a Linux target on a host that is not Linux returns
\* an error without having attempted a fetch, and leaves the cache as it
\* was.
C8_CrossLinuxFailsFast ==
    [][(/\ last'.op = "prefetch"
        /\ env.target.platform = "Linux"
        /\ env.host # "Linux")
       => (~last'.ok /\ last'.attempts = <<>> /\ fs' = fs)]_vars

\* A prefetch for a Linux target on a macOS host with the Flutter
\* toolchain configured has returned the error.
C8_Witness ==
    /\ last.op = "prefetch" /\ ~last.ok
    /\ env.target.platform = "Linux" /\ env.host = "Macos" /\ env.flutter
    /\ last.err = "cross compiling to linux is not yet supported"
    /\ last.attempts = <<>>

(* ------------------------------------------------------------------ *)
(* Flutter: the external tools it runs                                  *)
(* ------------------------------------------------------------------ *)

\* `git tag --points-at HEAD` in the toolchain repository: one line of
\* output per tag at HEAD, and a successful exit also when there is none;
\* a failure when git cannot run there.
GitTagPointsAt(e) ==
    IF e.git = "fails" THEN [success |-> FALSE, stdout |-> <<>>]
    ELSE [success |-> TRUE, stdout |-> e.tags]

\* Flutter::version
Version(e) ==
    IF ~GitTagPointsAt(e).success
    THEN [ok |-> FALSE, val |-> <<>>, err |-> "failed to get flutter version"]
    ELSE [ok |-> TRUE, val |-> GitTagPointsAt(e).stdout, err |-> ""]

\* A call of Flutter::version.
VersionCall ==
    /\ last' = [op |-> "version", ok |-> Version(env).ok,
                val |-> Version(env).val, err |-> Version(env).err]
    /\ UNCHANGED <<env, fs>>

\* One argument of a command: a literal, a path, or a literal prefix
\* followed by a path (format!("--assembly={}", ..)).
Arg(flag, path) == [flag |-> flag, path |-> path]

\* Command::new(program) with its arguments and the SDKROOT it is given;
\* `writes` is the file the invocation produces.
Cmd(program, args, sdkroot, writes) ==
    [program |-> program, args |-> args, sdkroot |-> sdkroot,
     writes |-> writes]

\* The paths a build hands to the tools: the entry file and the kernel
\* blob, depfile and build directory it works in.
AppPaths ==
    [target_file |-> << <<"lib">>, <<"main", "dart">> >>,
     output |-> << <<"build">>, <<"kernel_blob", "bin">> >>,
     depfile |-> << <<"build">>, <<"kernel_blob", "bin", "d">> >>,
     build_dir |-> << <<"build">> >>]

\* The snapshots a build asks for, and the SDK roots it passes.
Snapshots == { << <<"build">>, <<"App">> >>, << <<"build">>, <<"libapp", "so">> >> }

SdkRoots == { <<>>, << <<"cache">>, <<"iPhoneOS", "sdk">> >> }

\* task::run over a sequence of commands, each ended by `?`: the
\* failAt-th (0: none) exits non-zero; with `partial` it leaves a
\* truncated output behind. Every command before it wrote its output.
TaskRuns(f, plan, failAt, partial) ==
    [fs |-> [p \in DOMAIN f |->
                IF \E i \in 1 .. Len(plan) :
                      plan[i].writes = p /\ (failAt = 0 \/ i < failAt)
                THEN File(1 .. BodyChunks)
                ELSE IF /\ failAt \in 1 .. Len(plan)
                        /\ plan[failAt].writes = p /\ partial
                THEN File({})
                ELSE f[p]],
     ok |-> failAt = 0 \/ failAt > Len(plan),
     err |-> IF failAt = 0 \/ failAt > Len(plan) THEN "" ELSE "task failed",
     runs |-> IF failAt = 0 \/ failAt > Len(plan) THEN plan
              ELSE SubSeq(plan, 1, failAt)]

\* A lookup failed before any command was run.
NotRun(f, err) == [fs |-> f, ok |-> FALSE, err |-> err, runs |-> <<>>]

\* A match on opt that takes the debug arm for every opt.
OptArgsDebugOnly(f, e, opt) ==
    << Arg("--sdk-root", <<>>),
       Arg("", HostFile(f, e, << <<"flutter_patched_sdk">> >>).val),
       Arg("-Ddart.vm.profile=false", <<>>),
       Arg("-Ddart.vm.product=false", <<>>),
       Arg("--track-widget-creation", <<>>) >>

\* match opt { Opt::Release => .., Opt::Debug => .. }
OptArgs(f, e, opt) ==
    IF opt = "Release"
    THEN << Arg("--sdk-root", <<>>),
            Arg("", HostFile(f, e, << <<"flutter_patched_sdk_product">> >>).val),
            Arg("-Ddart.vm.profile=false", <<>>),
            Arg("-Ddart.vm.product=true", <<>>),
            Arg("--aot", <<>>),
            Arg("--tfa", <<>>) >>
    ELSE << Arg("--sdk-root", <<>>),
            Arg("", HostFile(f, e, << <<"flutter_patched_sdk">> >>).val),
            Arg("-Ddart.vm.profile=false", <<>>),
            Arg("-Ddart.vm.product=false", <<>>),
            Arg("--track-widget-creation", <<>>) >>

\* The host files kernel_blob_bin looks up, in the order of its `?`.
KernelLookups(f, e, opt) ==
    << HostFile(f, e, LookupPath(e, "dart")),
       HostFile(f, e, LookupPath(e, "frontend_server")),
       HostFile(f, e, << IF opt = "Release"
                         THEN <<"flutter_patched_sdk_product">>
                         ELSE <<"flutter_patched_sdk">> >>) >>

\* Flutter::kernel_blob_bin
KernelBlobBin(f, e, opt, failAt, partial) ==
    IF \E i \in 1 .. 3 : ~KernelLookups(f, e, opt)[i].ok
    THEN NotRun(f, KernelLookups(f, e, opt)[
                      CHOOSE i \in 1 .. 3 :
                         /\ ~KernelLookups(f, e, opt)[i].ok
                         /\ \A j \in 1 .. i - 1 : KernelLookups(f, e, opt)[j].ok
                   ].err)
    ELSE TaskRuns(f,
           << Cmd(KernelLookups(f, e, opt)[1].val,
                  << Arg("", KernelLookups(f, e, opt)[2].val),
                     Arg("--target=flutter", <<>>),
                     Arg("--no-print-incremental-dependencies", <<>>),
                     Arg("--packages", <<>>),
                     Arg(".packages", <<>>),
                     Arg("--output-dill", <<>>),
                     Arg("", AppPaths.output),
                     Arg("--depfile", <<>>),
                     Arg("", AppPaths.depfile) >>
                  \o OptArgs(f, e, opt)
                  \o << Arg("", AppPaths.target_file) >>,
                  <<>>, AppPaths.output) >>,
           failAt, partial)

\* A call of kernel_blob_bin.
KernelBlobBinCall(opt, failAt, partial) ==
    \E r \in {KernelBlobBin(fs, env, opt, failAt, partial)} :
        /\ fs' = r.fs
        /\ last' = [op |-> "kernel_blob_bin", opt |-> opt, ok |-> r.ok,
                    err |-> r.err, runs |-> r.runs]
        /\ UNCHANGED env

\* match target.arch() { Arch::X64 => "x86_64", Arch::Arm64 => "arm64" }
ClangArch(arch) == IF arch = "X64" THEN "x86_64" ELSE "arm64"

\* if target.platform() == Platform::Ios { .. if let Some(sdkroot) .. }
IosArgs(target, sdkroot) ==
    IF target.platform # "Ios" THEN <<>>
    ELSE << Arg("-miphoneos-version-min=9.0", <<>>) >>
         \o (IF sdkroot # <<>> THEN << Arg("--sysroot=", sdkroot) >> ELSE <<>>)

\* A generator picked by the architecture asked for.
GenSnapshotByArch(e, target) ==
    Join(EngineDir(e, target).val,
         Exe(e, IF target.arch = "Arm64" THEN <<"gen_snapshot_arm64">>
                ELSE <<"gen_snapshot">>))

\* The generator of snapshots in the engine directory of the target.
GenSnapshot(e, target) ==
    Join(EngineDir(e, target).val,
         Exe(e, IF target.platform = "Ios" THEN <<"gen_snapshot_arm64">>
                ELSE <<"gen_snapshot">>))

\* A plan that writes an ELF snapshot for every platform.
AotPlanElfOnly(e, target, snapshot, sdkroot) ==
    << Cmd(GenSnapshot(e, target),
           << Arg("--deterministic", <<>>), Arg("--strip", <<>>),
              Arg("--snapshot_kind=app-aot-elf", <<>>),
              Arg("--elf=", snapshot),
              Arg("", AppPaths.output) >>,
           <<>>, snapshot) >>

\* A plan for the Apple platforms whose generator writes the snapshot
\* path itself.
AotPlanEarlySnapshot(e, target, snapshot, sdkroot) ==
    << Cmd(GenSnapshot(e, target),
           << Arg("--deterministic", <<>>), Arg("--strip", <<>>),
              Arg("--snapshot_kind=app-aot-elf", <<>>),
              Arg("--elf=", snapshot),
              Arg("", AppPaths.output) >>,
           <<>>, snapshot) >>
    \o (IF target.platform \in {"Ios", "Macos"}
        THEN << Cmd(<< <<"clang">> >>, << Arg("-c", <<>>) >>, <<>>,
                    Join(AppPaths.build_dir, <<"snapshot", "o">>)),
                Cmd(<< <<"clang">> >>, << Arg("-dynamiclib", <<>>) >>, <<>>,
                    snapshot) >>
        ELSE <<>>)

\* The commands of aot_snapshot, in the order it runs them.
AotPlan(e, target, snapshot, sdkroot) ==
    IF target.platform \in {"Ios", "Macos"}
    THEN << Cmd(GenSnapshot(e, target),
                << Arg("--deterministic", <<>>), Arg("--strip", <<>>),
                   Arg("--snapshot_kind=app-aot-assembly", <<>>),
                   Arg("--assembly=", Join(AppPaths.build_dir, <<"snapshot", "S">>)),
                   Arg("", AppPaths.output) >>,
                <<>>, Join(AppPaths.build_dir, <<"snapshot", "S">>)),
            Cmd(<< <<"clang">> >>,
                << Arg("-c", <<>>),
                   Arg("", Join(AppPaths.build_dir, <<"snapshot", "S">>)),
                   Arg("-o", <<>>),
                   Arg("", Join(AppPaths.build_dir, <<"snapshot", "o">>)),
                   Arg("-arch", <<>>),
                   Arg(ClangArch(target.arch), <<>>) >>
                \o IosArgs(target, sdkroot),
                IF target.platform = "Ios" THEN sdkroot ELSE <<>>,
                Join(AppPaths.build_dir, <<"snapshot", "o">>)),
            Cmd(<< <<"clang">> >>,
                << Arg("-arch", <<>>),
                   Arg(ClangArch(target.arch), <<>>),
                   Arg("-dynamiclib", <<>>),
                   Arg("-Xlinker", <<>>), Arg("-rpath", <<>>),
                   Arg("-Xlinker", <<>>),
                   Arg("@executable_path/Frameworks", <<>>),
                   Arg("-Xlinker", <<>>), Arg("-rpath", <<>>),
                   Arg("-Xlinker", <<>>),
                   Arg("@loader_path/Frameworks", <<>>),
                   Arg("-install_name", <<>>),
                   Arg("@rpath/", << snapshot[Len(snapshot)] \o <<"framework">>,
                                     snapshot[Len(snapshot)] >>),
                   Arg("-o", <<>>),
                   Arg("", snapshot),
                   Arg("", Join(AppPaths.build_dir, <<"snapshot", "o">>)) >>
                \o IosArgs(target, sdkroot),
                IF target.platform = "Ios" THEN sdkroot ELSE <<>>,
                snapshot) >>
    ELSE << Cmd(GenSnapshot(e, target),
                << Arg("--deterministic", <<>>), Arg("--strip", <<>>),
                   Arg("--snapshot_kind=app-aot-elf", <<>>),
                   Arg("--elf=", snapshot),
                   Arg("", AppPaths.output) >>,
                <<>>, snapshot) >>

\* Flutter::aot_snapshot
AotSnapshot(f, e, target, snapshot, sdkroot, failAt, partial) ==
    IF ~EngineDir(e, target).ok THEN NotRun(f, EngineDir(e, target).val)
    ELSE TaskRuns(f, AotPlan(e, target, snapshot, sdkroot), failAt, partial)

\* A call of aot_snapshot.
AotSnapshotCall(target, snapshot, sdkroot, failAt, partial) ==
    \E r \in {AotSnapshot(fs, env, target, snapshot, sdkroot, failAt, partial)} :
        /\ fs' = r.fs
        /\ last' = [op |-> "aot_snapshot", target |-> target,
                    snapshot |-> snapshot, sdkroot |-> sdkroot,
                    ok |-> r.ok, err |-> r.err, runs |-> r.runs,
                    failAt |-> failAt, pre |-> fs[snapshot]]
        /\ UNCHANGED env

\* A symbolic link to a directory.
Link(target) == [kind |-> "link", data |-> {target}]

\* Path::exists: follows a symbolic link to what it points at.
PathExists(f, p) ==
    IF f[p].kind = "link"
    THEN \E t \in f[p].data : t \in DOMAIN f /\ Exists(f, t)
    ELSE Exists(f, p)

\* The root of the toolchain repository, its package directory
\* bin/cache/pkg, and the engine directory of an earlier engine version.
FlutterRoot == << <<"flutter">> >>

PkgDir == Join(Join(Join(FlutterRoot, <<"bin">>), <<"cache">>), <<"pkg">>)

OldSkyEngine ==
    << <<"cache">>, <<"engine">>, <<"e0">>, <<"sky_engine">> >>

\* symlink::remove_symlink_dir, then symlink::symlink_dir(src, dest):
\* the first removes a link, the second fails when dest is there.
SymlinkDir(f, src, dest) ==
    IF f[dest].kind # "none"
    THEN NotRun(f, "symlink_dir: file exists")
    ELSE [fs |-> [f EXCEPT ![dest] = Link(src)], ok |-> TRUE, err |-> "",
          runs |-> <<>>]

\* if dest_dir.exists()
DestExists(f, p) == PathExists(f, p)

\* Flutter::dart_pub from the write of the version file on; `src` is
\* host_file("sky_engine").
DartPubLink(f, src, dest) ==
    IF ~src.ok THEN NotRun(f, src.err)
    ELSE IF DestExists(f, dest)
    THEN IF f[dest].kind = "link"
         THEN SymlinkDir([f EXCEPT ![dest] = None], src.val, dest)
         ELSE NotRun(f, "remove_symlink_dir")
    ELSE SymlinkDir(f, src.val, dest)

\* Flutter::dart_pub: ok with the command `dart pub` to run, or the
\* error of the step that failed.
DartPub(f, e) ==
    IF ~Version(e).ok THEN NotRun(f, Version(e).err)
    ELSE DartPubLink(
           [CreateDirAll(f, PkgDir)
               EXCEPT ![Join(FlutterRoot, <<"version">>)] = File(1 .. BodyChunks)],
           HostFile(f, e, LookupPath(e, "sky_engine")),
           Join(PkgDir, <<"sky_engine">>))

\* Flutter::pub_get, pub_upgrade: dart_pub, then the command with `verb`.
PubRun(d, f, e, verb, failAt) ==
    IF ~d.ok THEN d
    ELSE IF ~HostFile(f, e, LookupPath(e, "dart")).ok
    THEN NotRun(d.fs, HostFile(f, e, LookupPath(e, "dart")).err)
    ELSE TaskRuns(d.fs,
                  << Cmd(HostFile(f, e, LookupPath(e, "dart")).val,
                         << Arg("pub", <<>>), Arg(verb, <<>>),
                            Arg("--no-precompile", <<>>) >>,
                         <<>>, <<>>) >>,
                  failAt, FALSE)

\* A call of pub_get or pub_upgrade.
PubCall(verb, failAt) ==
    \E d \in {DartPub(fs, env)} :
      \E r \in {PubRun(d, fs, env, verb, failAt)} :
        /\ fs' = r.fs
        /\ last' = [op |-> "pub", verb |-> verb, ok |-> r.ok, err |-> r.err,
                    runs |-> r.runs, prepared |-> d.ok,
                    pre |-> fs[Join(PkgDir, <<"sky_engine">>)]]
        /\ UNCHANGED env

\* The host's looked-up files, for either opt of a build.
HostFiles(e) ==
    HostPaths([e EXCEPT !.target.opt = "Debug"], HostLookups)
    \cup HostPaths([e EXCEPT !.target.opt = "Release"], HostLookups)

\* The disk a tool sees: the host's files, there or not, and `paths`,
\* of which those in `dirs` are directories and the rest are absent.
ToolsDisk(e, hostHas, paths, dirs) ==
    [p \in HostFiles(e) \cup paths |->
        IF p \in dirs THEN Dir({})
        ELSE IF p \in HostFiles(e) /\ hostHas THEN File(1 .. BodyChunks)
        ELSE None]

InitDart ==
    /\ env \in [host : HostOses, harch : Archs,
                target : {[platform |-> "Android", archs |-> <<"X64">>,
                           opt |-> "Release"]},
                flutter : {TRUE}, marker : {"e1", "missing"},
                git : {"ok", "fails"},
                tags : {<<>>, <<"3.0.0">>, <<"3.0.0", "stable">>}]
    /\ \E hostHas \in BOOLEAN : \E oldThere \in BOOLEAN : \E link \in BOOLEAN :
          fs = [ToolsDisk(env, hostHas,
                          {SubSeq(PkgDir, 1, n) : n \in 1 .. Len(PkgDir)}
                          \cup {Join(PkgDir, <<"sky_engine">>),
                                Join(FlutterRoot, <<"version">>), OldSkyEngine,
                                AppPaths.output},
                          {FlutterRoot} \cup (IF oldThere THEN {OldSkyEngine}
                                              ELSE {})
                          \cup (IF link THEN {SubSeq(PkgDir, 1, n) :
                                                 n \in 1 .. Len(PkgDir)}
                                ELSE {}))
                  EXCEPT ![Join(PkgDir, <<"sky_engine">>)] =
                            IF link THEN Link(OldSkyEngine) ELSE None]
    /\ last = NoCall

NextDart ==
    \/ VersionCall
    \/ \E verb \in {"get", "upgrade"} : \E failAt \in {0, 1} :
          PubCall(verb, failAt)
    \/ \E opt \in Opts : \E failAt \in {0, 1} : \E partial \in BOOLEAN :
          /\ partial => failAt # 0
          /\ KernelBlobBinCall(opt, failAt, partial)

SpecDart == InitDart /\ [][NextDart]_vars

\* The disk holds the snapshots, the artifacts a build refers to
\* afterwards; the intermediate files of the build directory are not kept
\* track of.
InitAot ==
    /\ env \in [host : {"Macos", "Windows"}, harch : {"Arm64"},
                target : {[platform |-> "Android", archs |-> <<"X64">>,
                           opt |-> "Release"]},
                flutter : {TRUE}, marker : {"e1", "missing"}]
    /\ fs = ToolsDisk(env, FALSE, Snapshots, {})
    /\ last = NoCall

NextAot ==
    \E platform \in Platforms : \E arch \in Archs :
       \E snapshot \in Snapshots : \E sdkroot \in SdkRoots :
          \E failAt \in 0 .. 3 : \E partial \in BOOLEAN :
             /\ partial => failAt # 0
             /\ failAt > 1 => platform \in {"Ios", "Macos"}
             /\ sdkroot # <<>> => platform \in {"Ios", "Macos"}
             /\ AotSnapshotCall(CompileTarget(platform, arch, "Release"),
                                snapshot, sdkroot, failAt, partial)

SpecAot == InitAot /\ [][NextAot]_vars

(* ------------------------------------------------------------------ *)
(* Claims about the toolchain repository and the package link           *)
(* ------------------------------------------------------------------ *)

\* C11: Flutter::version returns an error whenever no tag points at the
\* checked-out revision of the toolchain repository; it returns a version
\* string only when there is such a tag.
C11_VersionNeedsTag ==
    (last.op = "version" /\ last.ok) => env.tags # <<>>

\* C17: whatever was at <flutter root>/bin/cache/pkg/sky_engine before
\* (nothing, a link to an existing directory, a link whose target is
\* gone), dart_pub does not fail because of it, and afterwards the path
\* is a link to the sky_engine directory of the host's Debug engine.
C17_PriorLinkReplaced ==
    (/\ last.op = "pub"
     /\ last.pre.kind \in {"none", "link"}
     /\ Version(env).ok
     /\ HostFile(fs, env, LookupPath(env, "sky_engine")).ok)
    => /\ last.prepared
       /\ fs[Join(PkgDir, <<"sky_engine">>)]
             = Link(HostFile(fs, env, LookupPath(env, "sky_engine")).val)

(* ------------------------------------------------------------------ *)
(* Claims about the compilation pipeline                                *)
(* ------------------------------------------------------------------ *)

\* C12: kernel_blob_bin runs at most one process, and exactly one when
\* its host files are there; the command has the entry file as its last
\* argument and, for Debug, --track-widget-creation, the profile=false and
\* product=false defines and the SDK root flutter_patched_sdk with none
\* of --aot, --tfa, product=true; for Release, --aot, --tfa, product=true
\* and the SDK root flutter_patched_sdk_product without
\* --track-widget-creation.
C12_KernelCommandFollowsOpt ==
    last.op = "kernel_blob_bin" =>
        LET flags(c) == {c.args[i].flag : i \in 1 .. Len(c.args)}
            root(c) == {c.args[i + 1].path[Len(c.args[i + 1].path)] :
                           i \in {j \in 1 .. Len(c.args) - 1 :
                                     c.args[j].flag = "--sdk-root"}}
        IN  /\ Len(last.runs) <= 1
            /\ (\A i \in 1 .. 3 : KernelLookups(fs, env, last.opt)[i].ok)
                  => Len(last.runs) = 1
            /\ \A k \in 1 .. Len(last.runs) :
                  /\ last.runs[k].args[Len(last.runs[k].args)]
                        = Arg("", AppPaths.target_file)
                  /\ last.opt = "Debug" =>
                        /\ {"--track-widget-creation", "-Ddart.vm.profile=false",
                            "-Ddart.vm.product=false"} \subseteq flags(last.runs[k])
                        /\ flags(last.runs[k])
                              \cap {"--aot", "--tfa", "-Ddart.vm.product=true"} = {}
                        /\ root(last.runs[k]) = {<<"flutter_patched_sdk">>}
                  /\ last.opt = "Release" =>
                        /\ {"--aot", "--tfa", "-Ddart.vm.product=true"}
                              \subseteq flags(last.runs[k])
                        /\ "--track-widget-creation" \notin flags(last.runs[k])
                        /\ root(last.runs[k]) = {<<"flutter_patched_sdk_product">>}

\* kernel_blob_bin ran its one command for a release build.
C12_Witness ==
    /\ last.op = "kernel_blob_bin" /\ last.opt = "Release" /\ last.ok
    /\ Len(last.runs) = 1

\* C13: an aot_snapshot that succeeds has run, for Android, Linux and
\* Windows, one command: the snapshot generator writing the ELF snapshot
\* from the kernel blob; for Ios and Macos three, in this order: the
\* generator writing the assembly, clang -c writing the object with
\* -arch of the requested architecture, clang -dynamiclib writing the
\* snapshot with the install name @rpath/<name>.framework/<name>, <name>
\* the file name of the snapshot. Nothing but the platform decides which.
C13_AotCommandsFollowPlatform ==
    (last.op = "aot_snapshot" /\ last.ok) =>
        LET flag(c, i) == c.args[i].flag
            has(c, a) == \E i \in 1 .. Len(c.args) : c.args[i] = a
            next(c, f, a) == \E i \in 1 .. Len(c.args) - 1 :
                                c.args[i] = Arg(f, <<>>) /\ c.args[i + 1] = a
            arch == IF last.target.arch = "X64" THEN "x86_64" ELSE "arm64"
            name == last.snapshot[Len(last.snapshot)]
            gen(c) == /\ Len(c.program) = Len(CacheDir) + 6
                      /\ SubSeq(c.program, 1, Len(CacheDir) + 5)
                            = EnginePath(CacheDir, <<env.marker>>, last.target)
                      /\ c.program[Len(c.program)][1]
                            \in {"gen_snapshot", "gen_snapshot_arm64"}
                      /\ c.args[Len(c.args)] = Arg("", AppPaths.output)
        IN  IF last.target.platform \in {"Android", "Linux", "Windows"}
            THEN /\ Len(last.runs) = 1
                 /\ gen(last.runs[1])
                 /\ has(last.runs[1], Arg("--snapshot_kind=app-aot-elf", <<>>))
                 /\ has(last.runs[1], Arg("--elf=", last.snapshot))
                 /\ last.runs[1].writes = last.snapshot
            ELSE /\ Len(last.runs) = 3
                 /\ gen(last.runs[1])
                 /\ has(last.runs[1], Arg("--snapshot_kind=app-aot-assembly", <<>>))
                 /\ has(last.runs[1], Arg("--assembly=", last.runs[1].writes))
                 /\ last.runs[2].program = << <<"clang">> >>
                 /\ flag(last.runs[2], 1) = "-c"
                 /\ last.runs[2].args[2] = Arg("", last.runs[1].writes)
                 /\ next(last.runs[2], "-o", Arg("", last.runs[2].writes))
                 /\ next(last.runs[2], "-arch", Arg(arch, <<>>))
                 /\ last.runs[3].program = << <<"clang">> >>
                 /\ has(last.runs[3], Arg("-dynamiclib", <<>>))
                 /\ next(last.runs[3], "-arch", Arg(arch, <<>>))
                 /\ next(last.runs[3], "-install_name",
                         Arg("@rpath/", <<name \o <<"framework">>, name>>))
                 /\ next(last.runs[3], "-o", Arg("", last.snapshot))
                 /\ has(last.runs[3], Arg("", last.runs[2].writes))
                 /\ last.runs[3].writes = last.snapshot
                 /\ Cardinality({last.runs[i].writes : i \in 1 .. 3}) = 3

\* The snapshot of (Ios, Arm64) was made with an SDK root, in three
\* commands.
C13_Witness ==
    /\ last.op = "aot_snapshot" /\ last.ok
    /\ last.target.platform = "Ios" /\ last.target.arch = "Arm64"
    /\ last.sdkroot # <<>>
    /\ Len(last.runs) = 3

\* C14: on Ios and Macos, when the n-th command of aot_snapshot exits
\* non-zero the call returns an error having started n commands and no
\* more; no command but the third writes the snapshot path, so a
\* snapshot that was not there before the call is there afterwards only
\* if the first two commands succeeded.
C14_AppleStepsAreFatal ==
    (last.op = "aot_snapshot" /\ last.target.platform \in {"Ios", "Macos"}) =>
        /\ (last.failAt # 0 /\ EngineVersion(env).ok)
              => ~last.ok /\ Len(last.runs) = last.failAt
        /\ ~last.ok => Len(last.runs) < 3 \/ last.failAt = 3
        /\ \A i \in 1 .. Len(last.runs) :
              last.runs[i].writes = last.snapshot => i = 3
        /\ (last.pre.kind = "none" /\ fs[last.snapshot].kind # "none")
              => Len(last.runs) = 3

\* The assembler failed for Macos: two commands were started, the call
\* returned an error and there is no snapshot.
C14_Witness ==
    /\ last.op = "aot_snapshot" /\ last.target.platform = "Macos"
    /\ last.failAt = 2 /\ ~last.ok
    /\ Len(last.runs) = 2
    /\ fs[last.snapshot].kind = "none"

(* ------------------------------------------------------------------ *)
(* Claims about the staging and the parent directory of a fetch         *)
(* ------------------------------------------------------------------ *)

\* C15: a fetch of an item whose output is absent, with a download and
\* an extraction that do not fail, returns success and has created the
\* parent directory of the output, in every branch and whether or not
\* that directory existed.
C15_FetchCreatesParent ==
    (last.op = "fetch" /\ ~last.pre /\ last.err \in {"", "create"})
    => (last.ok /\ IsDir(fs, Parent(last.item.output)))

\* C16: a fetch of an item whose output is absent writes the response
\* body to <cache>/download/<name of the URL>, whatever the extension of
\* the name; never to item.output.
C16_DownloadIsStaged ==
    (last.op = "fetch" /\ ~last.pre)
    => (/\ last.dest = Join(DownloadDir, UrlName(last.item.url))
        /\ last.dest # last.item.output)

(* ------------------------------------------------------------------ *)
(* Claims about the order and the items of prefetch                     *)
(* ------------------------------------------------------------------ *)

\* C18: the first fetch of a prefetch that returns an error is its last:
\* prefetch returns an error and starts no further fetch; and no source
\* address is requested more than once, within a fetch or across the
\* fetches of one prefetch.
C18_PrefetchFailsFast ==
    last.op = "prefetch" =>
        /\ \A i \in 1 .. Len(last.attempts) :
              /\ ~last.attempts[i].ok
                    => (/\ i = Len(last.attempts) /\ ~last.ok
                        /\ last.err = last.attempts[i].kind)
              /\ last.attempts[i].gets <= 1
        /\ \A i \in 1 .. Len(last.attempts) : \A j \in 1 .. Len(last.attempts) :
              (i < j /\ last.attempts[i].item.url = last.attempts[j].item.url)
              => last.attempts[i].gets + last.attempts[j].gets <= 1

\* The second fetch of a prefetch failed after its GET, and the fetches
\* planned after it were not started.
C18_Witness ==
    /\ last.op = "prefetch" /\ ~last.ok
    /\ Len(last.attempts) = 2
    /\ last.attempts[1].ok /\ ~last.attempts[2].ok
    /\ last.attempts[2].gets = 1
    /\ PlanLength(env, last.build_classes_dex) > 2

\* C19: a prefetch that succeeds with the Flutter toolchain configured
\* has fetched, after the SDK of the platform, the engine of every
\* compile target of the build in their order, then the engine of
\* (host, host arch, Debug), then the material fonts, and then r8 and the
\* embedding exactly when build_classes_dex is set and the target is
\* Android; without the toolchain it has fetched none of these. r8 and
\* the embedding are never attempted otherwise.
C19_FlutterArtifactsInOrder ==
    last.op = "prefetch" =>
        LET kinds == [i \in 1 .. Len(last.attempts) |-> last.attempts[i].kind]
            sdk == Cardinality({i \in 1 .. Len(kinds) :
                                   kinds[i] \in {"windows_sdk", "macos_sdk",
                                                 "android_ndk", "android_jar",
                                                 "ios_sdk"}})
            n == Len(env.target.archs)
            dir(i) == SubSeq(last.attempts[i].item.output, 1, Len(CacheDir) + 5)
            extras == last.build_classes_dex /\ env.target.platform = "Android"
        IN  /\ \A i \in 1 .. Len(kinds) :
                  kinds[i] \in {"r8", "flutter_embedding"} => extras
            /\ ~env.flutter =>
                  \A i \in 1 .. Len(kinds) :
                      kinds[i] \notin {"flutter_engine", "material_fonts",
                                       "r8", "flutter_embedding"}
            /\ (last.ok /\ env.flutter) =>
                  /\ Len(kinds) = sdk + n + 2 + (IF extras THEN 2 ELSE 0)
                  /\ \A i \in 1 .. sdk : kinds[i] \notin {"flutter_engine",
                                            "material_fonts", "r8",
                                            "flutter_embedding"}
                  /\ \A i \in 1 .. n :
                        /\ kinds[sdk + i] = "flutter_engine"
                        /\ dir(sdk + i)
                              = EnginePath(CacheDir, <<env.marker>>,
                                           [platform |-> env.target.platform,
                                            arch |-> env.target.archs[i],
                                            opt |-> env.target.opt])
                  /\ kinds[sdk + n + 1] = "flutter_engine"
                  /\ dir(sdk + n + 1)
                        = EnginePath(CacheDir, <<env.marker>>,
                                     [platform |-> env.host, arch |-> env.harch,
                                      opt |-> "Debug"])
                  /\ kinds[sdk + n + 2] = "material_fonts"
                  /\ extras => /\ kinds[sdk + n + 3] = "r8"
                               /\ kinds[sdk + n + 4] = "flutter_embedding"

\* A prefetch with build_classes_dex for an Android build of two
\* architectures went through with the toolchain configured.
C19_Witness ==
    /\ last.op = "prefetch" /\ last.ok
    /\ env.flutter /\ last.build_classes_dex
    /\ env.target.platform = "Android" /\ Len(env.target.archs) = 2
    /\ Len(last.attempts) = 8

\* C20: the item of the macOS SDK and that of the iOS SDK have no_colons
\* set exactly when the host is Windows, whatever the target of the
\* build; the items of the Windows SDK and of the Android NDK never have
\* it set.
C20_ColonFilterFollowsHost ==
    /\ \A t \in BuildTargets :
          /\ MacosSdkItem([env EXCEPT !.target = t]).no_colons
                <=> env.host = "Windows"
          /\ IosSdkItem([env EXCEPT !.target = t]).no_colons
                <=> env.host = "Windows"
          /\ ~WindowsSdkItem([env EXCEPT !.target = t]).no_colons
          /\ ~AndroidNdkItem([env EXCEPT !.target = t]).no_colons
    /\ last.op = "prefetch" =>
          \A i \in 1 .. Len(last.attempts) :
             /\ last.attempts[i].kind \in {"macos_sdk", "ios_sdk"}
                   => (last.attempts[i].item.no_colons <=> env.host = "Windows")
             /\ last.attempts[i].kind \in {"windows_sdk", "android_ndk"}
                   => ~last.attempts[i].item.no_colons

\* On a Windows host the macOS SDK was fetched with the colon filter.
C20_Witness ==
    /\ last.op = "prefetch" /\ env.host = "Windows"
    /\ last.attempts # <<>>
    /\ last.attempts[1].kind = "macos_sdk"
    /\ last.attempts[1].ok
    /\ last.attempts[1].item.no_colons

(* ------------------------------------------------------------------ *)
(* Claims about the snapshot generator and the flags of iOS             *)
(* ------------------------------------------------------------------ *)

\* C21: the first command of aot_snapshot is, for Ios, gen_snapshot_arm64
\* in the engine directory of the target, for X64 as for Arm64, and for
\* every other platform gen_snapshot there; the commands that assemble
\* and link carry -miphoneos-version-min=9.0 exactly when the platform
\* is Ios, and SDKROOT with --sysroot=<sdkroot> exactly when the platform
\* is Ios and an SDK root was passed; for Macos they carry none of them.
C21_GeneratorAndIosFlags ==
    (last.op = "aot_snapshot" /\ last.runs # <<>>) =>
        LET has(c, a) == \E i \in 1 .. Len(c.args) : c.args[i] = a
            sysroot(c) == \E i \in 1 .. Len(c.args) : c.args[i].flag = "--sysroot="
            gen == last.runs[1].program
            ios == last.target.platform = "Ios"
        IN  /\ Len(gen) = Len(CacheDir) + 6
            /\ SubSeq(gen, 1, Len(gen) - 1)
                  = EnginePath(CacheDir, <<env.marker>>, last.target)
            /\ gen[Len(gen)][1]
                  = (IF ios THEN "gen_snapshot_arm64" ELSE "gen_snapshot")
            /\ \A i \in 2 .. Len(last.runs) :
                  /\ last.runs[i].program = << <<"clang">> >>
                  /\ has(last.runs[i], Arg("-miphoneos-version-min=9.0", <<>>))
                        <=> ios
                  /\ has(last.runs[i], Arg("--sysroot=", last.sdkroot))
                        <=> (ios /\ last.sdkroot # <<>>)
                  /\ sysroot(last.runs[i]) <=> (ios /\ last.sdkroot # <<>>)
                  /\ last.runs[i].sdkroot
                        = (IF ios THEN last.sdkroot ELSE <<>>)

\* The snapshot of (Ios, X64) was made with an SDK root: the generator
\* that ran is gen_snapshot_arm64.
C21_Witness ==
    /\ last.op = "aot_snapshot" /\ last.ok
    /\ last.target.platform = "Ios" /\ last.target.arch = "X64"
    /\ last.sdkroot # <<>>
    /\ Len(last.runs) = 3
    /\ last.runs[1].program[Len(last.runs[1].program)][1] = "gen_snapshot_arm64"

(* ------------------------------------------------------------------ *)
(* The version markers of the toolchain repository                      *)
(* ------------------------------------------------------------------ *)

\* The longest marker content looked at, in characters.
MaxMarkerLen == 5

\* The characters of a marker: a letter, the separator, white space.
MarkerChars == {"a", "/", " "}

\* What may be at bin/internal/material_fonts.version: nothing, a
\* directory (Path::exists holds, read_to_string fails), or a file.
Markers ==
    {[kind |-> k, content |-> <<>>] : k \in {"missing", "dir"}}
    \cup {[kind |-> "file", content |-> c] :
             c \in UNION {[1 .. n -> MarkerChars] : n \in 0 .. MaxMarkerLen}}

\* str::trim
Trim(s) ==
    LET keep == {i \in 1 .. Len(s) : s[i] # " "}
    IN  IF keep = {} THEN <<>>
        ELSE SubSeq(s, CHOOSE i \in keep : \A j \in keep : i <= j,
                       CHOOSE i \in keep : \A j \in keep : j <= i)

\* str::split(sep), collected: the pieces between the separators, one
\* more than there are separators.
Split(s, sep) ==
    LET at == {i \in 1 .. Len(s) : s[i] = sep}
        cut(k) == IF k = 0 THEN 0
                  ELSE IF k = Cardinality(at) + 1 THEN Len(s) + 1
                  ELSE CHOOSE i \in at : Cardinality({j \in at : j < i}) = k - 1
    IN  [k \in 1 .. Cardinality(at) + 1 |->
            SubSeq(s, cut(k - 1) + 1, cut(k) - 1)]

\* What a call comes to: a value ("ok"), an error ("err"), or a panic,
\* after which it does not return.
Outcome(outcome, val, err) == [outcome |-> outcome, val |-> val, err |-> err]

\* Flutter::artifact_version
ArtifactVersion(marker) ==
    IF marker.kind = "missing"
    THEN Outcome("err", <<>>, "failed to locate engine.version")
    ELSE IF marker.kind = "dir" THEN Outcome("err", <<>>, "read_to_string")
    ELSE Outcome("ok", Trim(marker.content), "")

\* Flutter::material_fonts_version: .split('/').nth(3).unwrap()
MaterialFontsVersion(e) ==
    LET v == ArtifactVersion(e.fonts)
    IN  IF v.outcome # "ok" THEN v
        ELSE IF Len(Split(v.val, "/")) < 4
        THEN Outcome("panic", <<>>, "called Option::unwrap() on a None value")
        ELSE Outcome("ok", Split(v.val, "/")[4], "")

\* A call of material_fonts_version.
MaterialFontsVersionCall ==
    /\ last' = [op |-> "material_fonts_version"] @@ MaterialFontsVersion(env)
    /\ UNCHANGED <<env, fs>>

\* A call of engine_version.
EngineVersionCall ==
    /\ last' = [op |-> "engine_version"]
               @@ (IF EngineVersion(env).ok
                   THEN Outcome("ok", EngineVersion(env).val, "")
                   ELSE Outcome("err", <<>>, EngineVersion(env).val))
    /\ UNCHANGED <<env, fs>>

\* The toolchain repository with its two markers; no file is written.
InitVersion ==
    /\ env \in [marker : {"e1", "missing"}, fonts : Markers]
    /\ fs = [p \in {} |-> None]
    /\ last = NoCall

NextVersion == EngineVersionCall \/ MaterialFontsVersionCall

SpecVersion == InitVersion /\ [][NextVersion]_vars

(* ------------------------------------------------------------------ *)
(* Claims about the version markers                                     *)
(* ------------------------------------------------------------------ *)

\* C22: engine_version and material_fonts_version always return, a value
\* or an error: an error when the marker file is missing, and for
\* material_fonts_version an error too when the content of the marker
\* has fewer than four segments between '/'; otherwise
\* material_fonts_version returns the fourth segment.
C22_VersionResolutionReturns ==
    LET segments == Split(Trim(env.fonts.content), "/")
    IN  /\ last.op \in {"engine_version", "material_fonts_version"}
              => last.outcome \in {"ok", "err"}
        /\ (last.op = "engine_version" /\ env.marker = "missing")
              => last.outcome = "err"
        /\ last.op = "material_fonts_version" =>
              /\ env.fonts.kind = "missing" => last.outcome = "err"
              /\ (env.fonts.kind = "file" /\ Len(segments) < 4)
                    => last.outcome = "err"
              /\ (env.fonts.kind = "file" /\ Len(segments) >= 4)
                    => last.outcome = "ok" /\ last.val = segments[4]

(* ------------------------------------------------------------------ *)
(* Running on the host and waiting for the observatory URL              *)
(* ------------------------------------------------------------------ *)

\* The most lines the child writes to its stdout before it ends.
MaxLines == 2

\* The lines a child may write, in pieces of text: "U" is the text
\* http://127.0.0.1, "x" any other text without white space, " " a blank.
LogLines ==
    { <<>>, <<"x">>, <<"U">>, <<" ", "U">>, <<"x", " ", "x">>,
      <<"U", " ", "x">>, <<"x", " ", "U">>, <<"x", " ", "U", "x", " ">> }

\* str::rsplit_once(' '): what follows the last blank, when there is one.
RsplitOnce(line) ==
    LET at == {i \in 1 .. Len(line) : line[i] = " "}
    IN  IF at = {} THEN [some |-> FALSE, url |-> <<>>]
        ELSE [some |-> TRUE,
              url |-> SubSeq(line, (CHOOSE i \in at : \A j \in at : j <= i) + 1,
                             Len(line))]

\* Host::run up to the loop: the child is spawned; without flutter_attach
\* the runner is returned at once, with no URL.
HostRunSpawn ==
    /\ last = NoCall
    /\ last' = [op |-> "run",
                pc |-> IF env.spawns /\ env.attach THEN "loop" ELSE "returned",
                ok |-> env.spawns, url |-> <<>>, pos |-> 0, item |-> "",
                printed |-> <<>>]
    /\ UNCHANGED <<env, fs>>

\* lines.next() at the head of the loop: the next line, the error of
\* reading it, or None once stdout has ended.
HostLinesNext ==
    /\ last.op = "run" /\ last.pc = "loop"
    /\ last' = IF last.pos = Len(env.stdout)
               THEN [last EXCEPT !.pc = "body", !.item = "none"]
               ELSE [last EXCEPT !.pc = "body", !.pos = @ + 1,
                                 !.item = IF env.bad = last.pos + 1
                                          THEN "err" ELSE "line"]
    /\ UNCHANGED <<env, fs>>

\* The body of the loop: `if let Some(line)`, `line?`, the break with the
\* URL, println; with None nothing is done and the loop goes round.
HostLoopBody ==
    /\ last.op = "run" /\ last.pc = "body"
    /\ \E line \in {IF last.item = "line" THEN Trim(env.stdout[last.pos])
                    ELSE <<>>} :
          last' = IF last.item = "none" THEN [last EXCEPT !.pc = "loop"]
                  ELSE IF last.item = "err"
                  THEN [last EXCEPT !.pc = "returned", !.ok = FALSE]
                  ELSE IF /\ RsplitOnce(line).some
                          /\ RsplitOnce(line).url # <<>>
                          /\ RsplitOnce(line).url[1] = "U"
                  THEN [last EXCEPT !.pc = "returned",
                                    !.url = RsplitOnce(line).url]
                  ELSE [last EXCEPT !.pc = "loop",
                                    !.printed = Append(@, line)]
    /\ UNCHANGED <<env, fs>>

\* A child with all it writes to stdout before it ends; `bad` is the
\* line whose read fails (0: none).
InitHost ==
    /\ env \in [stdout : UNION {[1 .. n -> LogLines] : n \in 0 .. MaxLines},
                bad : 0 .. MaxLines, attach : BOOLEAN, spawns : BOOLEAN]
    /\ env.bad <= Len(env.stdout)
    /\ env.attach \/ env.bad = 0
    /\ fs = [p \in {} |-> None]
    /\ last = NoCall

NextHost == HostRunSpawn \/ HostLinesNext \/ HostLoopBody

SpecHost == InitHost /\ [][NextHost]_vars

\* The thread of Host::run keeps running: a step that can be taken is
\* taken.
FairSpecHost == SpecHost /\ WF_vars(NextHost)

(* ------------------------------------------------------------------ *)
(* Claims about waiting for the URL                                     *)
(* ------------------------------------------------------------------ *)

\* C23: Host::run with flutter_attach returns once the stdout of the
\* child has ended: when lines.next() has found the end of stdout
\* without a line carrying the URL, the call returns.
C23_RunReturnsAfterEof ==
    (last.op = "run" /\ env.attach /\ last.item = "none")
        ~> (last.op = "run" /\ last.pc = "returned")

====
